---- MODULE Spec2Model ----
(***************************************************************************)
(* A model of src/utils.ts of the text-to-speech plugin:                   *)
(*   - generateVoice, the callback-to-promise adapter around the speech    *)
(*     SDK, with the process-wide store it shares between invocations;     *)
(*   - getSelectedText, getAudioFormatType (pure functions);               *)
(*   - the key-masking toggle of generateSettings.                         *)
(* JavaScript runs one callback at a time, so every action below is one    *)
(* whole synchronous run of a function or callback.                        *)
(***************************************************************************)
EXTENDS Integers, Sequences, FiniteSets, TLC

VARIABLES world, inv, started,
          editor, scope, selected, textPc,
          audioFormat, formatType, formatPc,
          settings, fields, pending, clicks

vars == <<world, inv, started, editor, scope, selected, textPc,
          audioFormat, formatType, formatPc, settings, fields, pending, clicks>>

voiceVars == <<world, inv, started>>
textVars == <<editor, scope, selected, textPc>>
formatVars == <<audioFormat, formatType, formatPc>>
settingsVars == <<settings, fields, pending, clicks>>

(***************************************************************************)
(* Bounds of the model.                                                    *)
(***************************************************************************)
MaxInvocations == 3

\* null of the store's handles; synthesizer and audio-config objects are
\* named by the number of the invocation that created them
Null == 0

Invocations == 1..MaxInvocations

\* texts are sequences of characters; only their (JavaScript) truthiness
\* matters to generateVoice
Texts == {<<>>, <<"h", "i">>}

Truthy(s) == s # <<>>

(***************************************************************************)
(* The store (import { actions } from "./store"): process-wide state with  *)
(* the registered synthesizer, the registered audio sink and the playing   *)
(* flag.  world.open is the set of synthesizer objects created and not yet *)
(* closed.  The store module is not among the source files; its actions    *)
(* follow the specification's description of the shared handle (sections   *)
(* 3, 4.2 step 1 and step 6, 5).                                           *)
(***************************************************************************)
\* actions.pause(): "stop audio"
pause(w) == [w EXCEPT !.playing = FALSE]

\* actions.clearAudioConfig(): "release the previous synthesizer handle":
\* the handle registered by the previous request is closed and cleared
clearAudioConfig(w) ==
    [w EXCEPT !.open = @ \ {w.synthesizer},
              !.synthesizer = Null,
              !.audioConfig = Null]

\* actions.setAudioConfig(audioConfig)
setAudioConfig(w, a) == [w EXCEPT !.audioConfig = a]

\* actions.setSpeechSynthesizer(synthesizer)
setSpeechSynthesizer(w, s) == [w EXCEPT !.synthesizer = s]

\* actions.clearsynthesizer(): takes no argument, so it closes and clears
\* the handle the store holds
clearsynthesizer(w) ==
    [w EXCEPT !.open = @ \ {w.synthesizer},
              !.synthesizer = Null]

(***************************************************************************)
(* generateVoice.  A context c is the pair of the shared world c.w and the *)
(* record c.r of one invocation (its closure and its promise).             *)
(***************************************************************************)
\* the states of a promise; a pending promise has no value yet
Pending == [state |-> "pending", value |-> FALSE]
Resolved(v) == [state |-> "resolved", value |-> v]
Rejected(v) == [state |-> "rejected", value |-> v]

NewInvocation ==
    [pc |-> "idle", text |-> <<>>, hasCallback |-> FALSE, created |-> FALSE,
     liveAtCreate |-> {}, spoke |-> 0, promise |-> Pending,
     settleCalls |-> 0, notices |-> <<>>, callbackCalls |-> 0,
     outcome |-> "none"]

\* resolve(v) / reject(v) of the promise executor: a promise keeps its
\* first settlement
resolve(c, v) ==
    [c EXCEPT !.r.promise = IF @ = Pending THEN Resolved(v) ELSE @,
              !.r.settleCalls = @ + 1]

reject(c, v) ==
    [c EXCEPT !.r.promise = IF @ = Pending THEN Rejected(v) ELSE @,
              !.r.settleCalls = @ + 1]

\* generateNotice().setMessage(generateNoticeText(message, messageType))
Notice(c, messageType) == [c EXCEPT !.r.notices = Append(@, messageType)]

\* const synthesizerClear = () => { actions.clearsynthesizer(); callback && callback(); }
synthesizerClear(c) ==
    [c EXCEPT !.w = clearsynthesizer(@),
              !.r.callbackCalls = IF c.r.hasCallback THEN @ + 1 ELSE @]

\* actions.pause(); actions.clearAudioConfig();
StopOnly(w) == pause(w)

StopAndClear(w) == clearAudioConfig(pause(w))

\* const ssmlContent = text ? `<speak ...>${text}</speak>` : "";
SsmlContentAlways(text) == <<"<speak>">> \o text \o <<"</speak>">>

SsmlContent(text) ==
    IF Truthy(text) THEN <<"<speak>">> \o text \o <<"</speak>">> ELSE <<>>

\* The try block.  throwAt is where the SDK throws, if it does:
\*   "config": SpeechConfig.fromSubscription / AudioConfig.from...Output
\*   "create": new sdk.SpeechSynthesizer
\*   "speak" : synthesizer.speakSsmlAsync, synchronously
\* The result is the context reached, with threw telling whether control
\* passes to the catch block.  A speakSsmlAsync that was accepted leaves
\* the invocation waiting for one of its two callbacks; with the speaker
\* as output (type "play") the audio starts playing.
TryBlock(c, i, type, throwAt) ==
    IF throwAt = "config" THEN [c |-> c, threw |-> TRUE]
    ELSE
    LET c1 == IF type = "save" THEN c
              ELSE [c EXCEPT !.w = setAudioConfig(@, i)]
    IN  IF throwAt = "create" THEN [c |-> c1, threw |-> TRUE]
        ELSE
        LET c2 == [c1 EXCEPT !.r.created = TRUE,
                             !.r.liveAtCreate = c1.w.open,
                             !.w.open = @ \cup {i}]
            c3 == [c2 EXCEPT !.w = setSpeechSynthesizer(@, i)]
            ssmlContent == SsmlContent(c3.r.text)
        IN  IF ~Truthy(ssmlContent)
            THEN [c |-> [c3 EXCEPT !.r.pc = "ended",
                                   !.r.outcome = "suppressed"],
                  threw |-> FALSE]
            ELSE
            LET c4 == [c3 EXCEPT !.r.spoke = @ + 1]
            IN  IF throwAt = "speak" THEN [c |-> c4, threw |-> TRUE]
                ELSE [c |-> [c4 EXCEPT !.r.pc = "speaking",
                                       !.w.playing = (type = "play")],
                      threw |-> FALSE]

\* catch (e) { notice(error); synthesizerClear(); reject(false); }
CatchNoNotice(c) ==
    LET c2 == synthesizerClear(c)
        c3 == reject(c2, FALSE)
    IN  [c3 EXCEPT !.r.pc = "ended", !.r.outcome = "exception"]

CatchBlock(c) ==
    LET c1 == Notice(c, "error")
        c2 == synthesizerClear(c1)
        c3 == reject(c2, FALSE)
    IN  [c3 EXCEPT !.r.pc = "ended", !.r.outcome = "exception"]

\* the completion callback function (result) {...}
CompletionAlwaysResolves(c, reason) ==
    LET ok == reason = "SynthesizingAudioCompleted"
        c1 == Notice(c, IF ok THEN "success" ELSE "error")
        c2 == resolve(c1, TRUE)
        c3 == synthesizerClear(c2)
    IN  [c3 EXCEPT !.r.pc = "ended",
                   !.r.outcome = IF ok THEN "completed" ELSE "otherReason"]

CompletionCallback(c, reason) ==
    LET ok == reason = "SynthesizingAudioCompleted"
        c1 == Notice(c, IF ok THEN "success" ELSE "error")
        res == ok
        c2 == IF res THEN resolve(c1, res) ELSE reject(c1, res)
        c3 == synthesizerClear(c2)
    IN  [c3 EXCEPT !.r.pc = "ended",
                   !.r.outcome = IF ok THEN "completed" ELSE "otherReason"]

\* the failure callback function (err) {...}
FailureCallback(c) ==
    LET c1 == Notice(c, "error")
        c2 == synthesizerClear(c1)
        c3 == reject(c2, FALSE)
    IN  [c3 EXCEPT !.r.pc = "ended", !.r.outcome = "failure"]

Reasons == {"SynthesizingAudioCompleted", "Canceled"}
ThrowPoints == {"none", "config", "create", "speak"}

Ctx(i) == [w |-> world, r |-> inv[i]]

Commit(i, c) ==
    /\ world' = c.w
    /\ inv' = [inv EXCEPT ![i] = c.r]

\* One call of generateVoice(config): the promise executor, run to its end.
GenerateVoice(text, type, hasCallback, throwAt) ==
    /\ started < MaxInvocations
    /\ LET i == started + 1
           c0 == [w |-> StopAndClear(world),
                  r |-> [NewInvocation EXCEPT !.pc = "setup", !.text = text,
                                              !.hasCallback = hasCallback]]
           t == TryBlock(c0, i, type, throwAt)
           c == IF t.threw THEN CatchBlock(t.c) ELSE t.c
       IN  /\ started' = i
           /\ Commit(i, c)
    /\ UNCHANGED <<textVars, formatVars, settingsVars>>

\* The SDK calls the completion callback of a pending speakSsmlAsync.
SdkComplete(i, reason) ==
    /\ inv[i].pc = "speaking"
    /\ Commit(i, CompletionCallback(Ctx(i), reason))
    /\ UNCHANGED <<started, textVars, formatVars, settingsVars>>

\* The SDK calls the failure callback of a pending speakSsmlAsync.
SdkError(i) ==
    /\ inv[i].pc = "speaking"
    /\ Commit(i, FailureCallback(Ctx(i)))
    /\ UNCHANGED <<started, textVars, formatVars, settingsVars>>

(***************************************************************************)
(* Strings are sequences of one-character strings.                         *)
(***************************************************************************)
MaxDocLen == 4
MaxFormatLen == 5

StringsUpTo(chars, n) == UNION {[1..k -> chars] : k \in 0..n}

\* String.prototype.trim: white space and line terminators, both ends
WhiteSpace == {" ", "\n"}

RECURSIVE TrimStart(_)
TrimStart(s) ==
    IF s # <<>> /\ Head(s) \in WhiteSpace THEN TrimStart(Tail(s)) ELSE s

RECURSIVE TrimEnd(_)
TrimEnd(s) ==
    IF s # <<>> /\ s[Len(s)] \in WhiteSpace
    THEN TrimEnd(SubSeq(s, 1, Len(s) - 1)) ELSE s

Trim(s) == TrimEnd(TrimStart(s))

(***************************************************************************)
(* The editor of the host application, as getSelectedText reads it: the    *)
(* lines of the document, the cursor (the head of the selection) and the   *)
(* anchor of the selection; positions are {line, ch}, both from 0.         *)
(***************************************************************************)
DocChars == {"a", ".", " ", "\n"}
WordChars == {"a"}

\* the lines of a document given as one string
RECURSIVE SplitLines(_)
SplitLines(doc) ==
    IF \A k \in 1..Len(doc) : doc[k] # "\n" THEN <<doc>>
    ELSE LET k == CHOOSE j \in 1..Len(doc) :
                      doc[j] = "\n" /\ \A h \in 1..(j - 1) : doc[h] # "\n"
         IN  <<SubSeq(doc, 1, k - 1)>> \o SplitLines(SubSeq(doc, k + 1, Len(doc)))

RECURSIVE JoinLines(_)
JoinLines(lines) ==
    IF Len(lines) = 1 THEN lines[1]
    ELSE lines[1] \o <<"\n">> \o JoinLines(Tail(lines))

RECURSIVE posToOffset(_, _)
posToOffset(lines, pos) ==
    IF pos.line = 0 THEN pos.ch
    ELSE Len(lines[1]) + 1
         + posToOffset(Tail(lines), [line |-> pos.line - 1, ch |-> pos.ch])

RECURSIVE offsetToPos(_, _)
offsetToPos(lines, off) ==
    IF off <= Len(lines[1]) THEN [line |-> 0, ch |-> off]
    ELSE LET p == offsetToPos(Tail(lines), off - Len(lines[1]) - 1)
         IN  [line |-> p.line + 1, ch |-> p.ch]

\* editor.getCursor(), editor.lastLine(), editor.getLine(n)
getCursor(e) == e.cursor
lastLine(e) == Len(e.lines) - 1
getLine(e, n) == e.lines[n + 1]

\* editor.getRange(from, to): the text between two positions
getRange(e, from, to) ==
    SubSeq(JoinLines(e.lines), posToOffset(e.lines, from) + 1,
           posToOffset(e.lines, to))

\* editor.getSelection(): the text between anchor and head, in either order
getSelection(e) ==
    LET a == posToOffset(e.lines, e.anchor)
        h == posToOffset(e.lines, e.cursor)
    IN  SubSeq(JoinLines(e.lines), (IF a < h THEN a ELSE h) + 1,
               IF a < h THEN h ELSE a)

\* editor.wordAt(pos): the range of the word around pos on its line, or
\* null (found = FALSE) when no word character touches pos
RECURSIVE WordStart(_, _)
WordStart(line, ch) ==
    IF ch > 0 /\ line[ch] \in WordChars THEN WordStart(line, ch - 1) ELSE ch

RECURSIVE WordEnd(_, _)
WordEnd(line, ch) ==
    IF ch < Len(line) /\ line[ch + 1] \in WordChars
    THEN WordEnd(line, ch + 1) ELSE ch

wordAt(e, pos) ==
    LET line == getLine(e, pos.line)
        start == WordStart(line, pos.ch)
        end == WordEnd(line, pos.ch)
    IN  [found |-> start # end,
         from |-> [line |-> pos.line, ch |-> start],
         to |-> [line |-> pos.line, ch |-> end]]

NoEditor == [present |-> FALSE]

EditorOf(doc, cursorOff, anchorOff) ==
    LET lines == SplitLines(doc)
    IN  [present |-> TRUE, lines |-> lines,
         cursor |-> offsetToPos(lines, cursorOff),
         anchor |-> offsetToPos(lines, anchorOff)]

Scopes == {"before", "after", "off"}

\* the scope "off" is read like "before": the range is used whenever there
\* is no selection
getSelectedTextRangeAlways(readBeforeOrAfter, e) ==
    IF e.present
    THEN LET from0 == [line |-> 0, ch |-> 0]
             to0 == getCursor(e)
             after == readBeforeOrAfter = "after"
             lastLineNumber == lastLine(e)
             defaultToValue == [line |-> lastLineNumber,
                                ch |-> Len(getLine(e, lastLineNumber))]
             lastWordPosition == wordAt(e, defaultToValue)
             from == IF after THEN getCursor(e) ELSE from0
             to == IF after
                   THEN (IF lastWordPosition.found THEN lastWordPosition.to
                         ELSE defaultToValue)
                   ELSE to0
             content == IF Truthy(getSelection(e)) THEN getSelection(e)
                        ELSE getRange(e, from, to)
         IN  Trim(content)
    ELSE <<>>

getSelectedText(readBeforeOrAfter, e) ==
    IF e.present
    THEN LET content0 == getSelection(e)
             from0 == [line |-> 0, ch |-> 0]
             to0 == getCursor(e)
             after == readBeforeOrAfter = "after"
             lastLineNumber == lastLine(e)
             defaultToValue == [line |-> lastLineNumber,
                                ch |-> Len(getLine(e, lastLineNumber))]
             lastWordPosition == wordAt(e, defaultToValue)
             from == IF after THEN getCursor(e) ELSE from0
             to == IF after
                   THEN (IF lastWordPosition.found THEN lastWordPosition.to
                         ELSE defaultToValue)
                   ELSE to0
             content == IF readBeforeOrAfter # "off"
                        THEN (IF Truthy(content0) THEN content0
                              ELSE getRange(e, from, to))
                        ELSE content0
         IN  Trim(content)
    ELSE <<>>

\* a caller reads the text to speak
ReadSelectedText ==
    /\ textPc = "ready"
    /\ selected' = getSelectedText(scope, editor)
    /\ textPc' = "done"
    /\ UNCHANGED <<editor, scope, voiceVars, formatVars, settingsVars>>

(***************************************************************************)
(* getAudioFormatType                                                      *)
(***************************************************************************)
FormatChars == {"m", "M", "p", "3", "-", "w", "\n"}

\* String.prototype.toLowerCase, on the characters of the model
LowerChar(ch) == CASE ch = "M" -> "m" [] OTHER -> ch
toLowerCase(s) == [k \in 1..Len(s) |-> LowerChar(s[k])]

\* s.replace(/(.*-)/g, ""): scanning from position p, a match starts at p
\* when a "-" follows on the same line ("." matches no line terminator) and
\* is greedy up to the last "-" of that line; the match is deleted and the
\* scan goes on behind it; otherwise the character at p is kept
RECURSIVE ReplaceThroughDash(_, _)
ReplaceThroughDash(s, p) ==
    IF p > Len(s) THEN <<>>
    ELSE LET stop == IF \E k \in p..Len(s) : s[k] = "\n"
                     THEN CHOOSE k \in p..Len(s) :
                              s[k] = "\n" /\ \A h \in p..(k - 1) : s[h] # "\n"
                     ELSE Len(s) + 1
             dashes == {k \in p..(stop - 1) : s[k] = "-"}
         IN  IF dashes # {}
             THEN LET q == CHOOSE k \in dashes : \A h \in dashes : h <= k
                  IN  ReplaceThroughDash(s, q + 1)
             ELSE <<s[p]>> \o ReplaceThroughDash(s, p + 1)

getAudioFormatTypeCaseSensitive(format) ==
    IF ReplaceThroughDash(format, 1) = <<"m", "p", "3">> THEN "mp3" ELSE "wav"

getAudioFormatType(format) ==
    IF toLowerCase(ReplaceThroughDash(format, 1)) = <<"m", "p", "3">>
    THEN "mp3" ELSE "wav"

\* a caller derives the container type of the chosen format
DeriveFormatType ==
    /\ formatPc = "ready"
    /\ formatType' = getAudioFormatType(audioFormat)
    /\ formatPc' = "done"
    /\ UNCHANGED <<audioFormat, voiceVars, textVars, settingsVars>>

(***************************************************************************)
(* generateSettings: the controls of the settings tab.  A password-style   *)
(* text field has an input element and a masking button; both closures of  *)
(* one call of generateSettings see only that call's textEl and btn.       *)
(***************************************************************************)
MaxFields == 2
MaxClicks == 3

Kinds == {"text", "textArea", "select", "toggle", "slider"}

\* handleIconSwitch: btn.setIcon(plugin.settings.keyHide ? "eye" : "eye-off")
handleIconSwitch(field, st) ==
    [field EXCEPT !.icon = IF st.keyHide THEN "eye" ELSE "eye-off"]

\* handleInputTypeSwitch: textEl && textEl.inputEl.setAttribute("type", ...)
handleInputTypeSwitch(field, st) ==
    IF field.hasTextEl
    THEN [field EXCEPT !.inputType = IF st.keyHide THEN "password" ELSE "text"]
    ELSE field

\* the control one call of generateSettings builds
BuiltField(type, isPassword, st) ==
    LET bare == [type |-> type, password |-> FALSE, hasTextEl |-> FALSE,
                 inputType |-> "default", icon |-> "none"]
    IN  IF type \in {"text", "textArea"} /\ isPassword
        THEN handleIconSwitch(
                 handleInputTypeSwitch(
                     [bare EXCEPT !.password = TRUE, !.hasTextEl = TRUE], st),
                 st)
        ELSE bare

\* generateSettings(container, plugin, config)
GenerateSettings(type, isPassword) ==
    /\ Len(fields) < MaxFields
    /\ fields' = Append(fields, BuiltField(type, isPassword, settings))
    /\ UNCHANGED <<settings, pending, clicks, voiceVars, textVars, formatVars>>

\* the masking button of field f is clicked: the handler flips keyHide and
\* awaits plugin.saveSettings()
ClickMask(f) ==
    /\ f \in 1..Len(fields)
    /\ fields[f].password
    /\ clicks < MaxClicks
    /\ clicks' = clicks + 1
    /\ settings' = [settings EXCEPT !.keyHide = ~@]
    /\ pending' = Append(pending, f)
    /\ UNCHANGED <<fields, voiceVars, textVars, formatVars>>

\* what the click handler does once saveSettings has resolved
AfterSave(f, fs, st) ==
    [fs EXCEPT ![f] = handleInputTypeSwitch(handleIconSwitch(@, st), st)]

\* a pending saveSettings resolves and its click handler goes on
SaveSettingsDone(k) ==
    /\ k \in 1..Len(pending)
    /\ settings' = [settings EXCEPT !.saved = settings.keyHide]
    /\ fields' = AfterSave(pending[k], fields, settings)
    /\ pending' = SubSeq(pending, 1, k - 1) \o SubSeq(pending, k + 1, Len(pending))
    /\ UNCHANGED <<clicks, voiceVars, textVars, formatVars>>

InitVoice ==
    /\ world = [synthesizer |-> Null, audioConfig |-> Null,
                playing |-> FALSE, open |-> {}]
    /\ inv = [i \in Invocations |-> NewInvocation]
    /\ started = 0

InitTextIdle ==
    /\ editor = NoEditor
    /\ scope = "off"
    /\ selected = <<>>
    /\ textPc = "idle"

InitFormatIdle ==
    /\ audioFormat = <<>>
    /\ formatType = "unset"
    /\ formatPc = "idle"

InitSettingsIdle ==
    /\ settings = [keyHide |-> TRUE, saved |-> TRUE]
    /\ fields = <<>>
    /\ pending = <<>>
    /\ clicks = 0

Init == InitVoice /\ InitTextIdle /\ InitFormatIdle /\ InitSettingsIdle

Next ==
    \/ \E text \in Texts, type \in {"save", "play"}, hasCallback \in BOOLEAN,
          throwAt \in ThrowPoints :
          GenerateVoice(text, type, hasCallback, throwAt)
    \/ \E i \in Invocations, reason \in Reasons : SdkComplete(i, reason)
    \/ \E i \in Invocations : SdkError(i)

Spec == Init /\ [][Next]_vars

InitText ==
    /\ \/ editor = NoEditor
       \/ \E doc \in StringsUpTo(DocChars, MaxDocLen) :
          \E cursorOff \in 0..Len(doc), anchorOff \in 0..Len(doc) :
              editor = EditorOf(doc, cursorOff, anchorOff)
    /\ scope \in Scopes
    /\ selected = <<>>
    /\ textPc = "ready"

InitTextSpec == InitVoice /\ InitText /\ InitFormatIdle /\ InitSettingsIdle

NextText == ReadSelectedText

SpecText == InitTextSpec /\ [][NextText]_vars

InitFormat ==
    /\ audioFormat \in StringsUpTo(FormatChars, MaxFormatLen)
    /\ formatType = "unset"
    /\ formatPc = "ready"

InitFormatSpec == InitVoice /\ InitTextIdle /\ InitFormat /\ InitSettingsIdle

NextFormat == DeriveFormatType

SpecFormat == InitFormatSpec /\ [][NextFormat]_vars

NextSettings ==
    \/ \E type \in Kinds, isPassword \in BOOLEAN : GenerateSettings(type, isPassword)
    \/ \E f \in 1..MaxFields : ClickMask(f)
    \/ \E k \in 1..MaxClicks : SaveSettingsDone(k)

\* the settings as loaded: keyHide has either value, and is saved
InitSettings ==
    /\ \E keyHide \in BOOLEAN :
           settings = [keyHide |-> keyHide, saved |-> keyHide]
    /\ fields = <<>>
    /\ pending = <<>>
    /\ clicks = 0

InitSettingsSpec == InitVoice /\ InitTextIdle /\ InitFormatIdle /\ InitSettings

SpecSettings == InitSettingsSpec /\ [][NextSettings]_vars

(***************************************************************************)
(* Claims about generateVoice, checked under Spec.                         *)
(***************************************************************************)
Started(i) == inv[i].pc # "idle"
Ended(i) == inv[i].pc = "ended"

C2_CleanupOnEveryExit ==
    \A i \in Invocations :
        Ended(i) =>
            /\ inv[i].created => i \notin world.open
            /\ inv[i].hasCallback => inv[i].callbackCalls = 1

\* C3: the promise is settled exactly once per invocation: once the
\* lifecycle has ended it is resolved or rejected, by exactly one call.
C3_SettledExactlyOnce ==
    \A i \in Invocations :
        Ended(i) =>
            /\ inv[i].promise.state \in {"resolved", "rejected"}
            /\ inv[i].settleCalls = 1

\* C4: the promise resolves with true if and only if the completion
\* callback reported SynthesizingAudioCompleted; any other reason, the
\* failure callback and a setup exception reject it with false.
C4_ResolveIffCompleted ==
    \A i \in Invocations :
        /\ inv[i].promise = Resolved(TRUE) <=> inv[i].outcome = "completed"
        /\ inv[i].outcome \in {"otherReason", "failure", "exception"}
               => inv[i].promise = Rejected(FALSE)
        /\ inv[i].promise \in {Pending, Resolved(TRUE), Rejected(FALSE)}

\* one invocation completed, one ended with another reason, one failed
C4_Witness ==
    \E i, j, k \in Invocations :
        /\ inv[i].outcome = "completed" /\ inv[i].promise = Resolved(TRUE)
        /\ inv[j].outcome = "otherReason" /\ inv[j].promise = Rejected(FALSE)
        /\ inv[k].outcome \in {"failure", "exception"}

\* C5: every terminal outcome is surfaced exactly once: one notice per
\* invocation that reached an outcome, 'success' when the promise resolved
\* and 'error' when it rejected; never two notices, and none before.
C5_OneNoticePerOutcome ==
    \A i \in Invocations :
        /\ Len(inv[i].notices) <= 1
        /\ inv[i].promise.state = "resolved" => inv[i].notices = <<"success">>
        /\ inv[i].promise.state = "rejected" => inv[i].notices = <<"error">>
        /\ inv[i].outcome \in {"completed", "otherReason", "failure", "exception"}
               => Len(inv[i].notices) = 1

\* a setup exception, a failure callback and a success were each surfaced
C5_Witness ==
    \E i, j, k \in Invocations :
        /\ inv[i].outcome = "exception" /\ inv[i].notices = <<"error">>
        /\ inv[j].outcome = "failure" /\ inv[j].notices = <<"error">>
        /\ inv[k].outcome = "completed" /\ inv[k].notices = <<"success">>

\* C6, as stated: with empty text speakSsmlAsync is never invoked and the
\* promise is neither resolved nor rejected.
C6_EmptyTextNeverSettles ==
    \A i \in Invocations :
        (Started(i) /\ inv[i].text = <<>>) =>
            /\ inv[i].spoke = 0
            /\ inv[i].promise = Pending

\* C6, amended: with empty text speakSsmlAsync is never invoked, and the
\* promise is neither resolved nor rejected unless the setup threw, in
\* which case it is rejected with false.
C6_EmptyTextSuppressed ==
    \A i \in Invocations :
        (Started(i) /\ inv[i].text = <<>>) =>
            /\ inv[i].spoke = 0
            /\ inv[i].outcome # "exception" => inv[i].promise = Pending
            /\ inv[i].outcome = "exception" => inv[i].promise = Rejected(FALSE)

\* an empty-text invocation went through the setup, created its
\* synthesizer and ended with the promise pending
C6_Witness ==
    \E i \in Invocations :
        /\ inv[i].text = <<>>
        /\ inv[i].created
        /\ inv[i].outcome = "suppressed"
        /\ inv[i].promise = Pending

\* C10: the cleanup run by the completion or failure callback of an
\* invocation a never closes or clears the still-active synthesizer that a
\* later invocation b registered in the store.
C10_CleanupReleasesOnlyOwn ==
    [][\A a \in Invocations :
          (inv[a].pc = "speaking" /\ inv'[a].pc = "ended") =>
              \A b \in Invocations \ {a} :
                  (b \in world.open /\ inv[b].pc = "speaking") =>
                      (b \in world'.open /\ world'.synthesizer = world.synthesizer)]_vars

(***************************************************************************)
(* Claims about getSelectedText, checked under SpecText.                   *)
(***************************************************************************)
DocText == JoinLines(editor.lines)
CursorOffset == posToOffset(editor.lines, editor.cursor)
FinalLine == editor.lines[Len(editor.lines)]

\* the offset in the document of the end of the last word on the final
\* line, or the end of the document when the final line has no word
EndOfLastWordOnFinalLine ==
    LET ends == {k \in 1..Len(FinalLine) : FinalLine[k] \in WordChars}
    IN  IF ends = {} THEN Len(DocText)
        ELSE Len(DocText) - Len(FinalLine)
             + (CHOOSE k \in ends : \A h \in ends : h <= k)

ClaimedText(afterEnd) ==
    IF ~editor.present THEN <<>>
    ELSE IF getSelection(editor) # <<>> THEN Trim(getSelection(editor))
    ELSE CASE scope = "before" -> Trim(SubSeq(DocText, 1, CursorOffset))
           [] scope = "after" -> Trim(SubSeq(DocText, CursorOffset + 1, afterEnd))
           [] scope = "off" -> <<>>

\* C7, as stated: the trimmed selection when there is one; otherwise
\* start..cursor for 'before', cursor..end of the last word on the final
\* line (end of document when it has no word) for 'after', empty for 'off';
\* empty without an editor.
C7_AfterEndsAtLastWord ==
    textPc = "done" =>
        selected = ClaimedText(IF editor.present THEN EndOfLastWordOnFinalLine
                               ELSE 0)

\* C7, amended: as stated, but for 'after' the range is cursor..end of the
\* document.
C7_SelectedText ==
    textPc = "done" =>
        selected = ClaimedText(IF editor.present THEN Len(DocText) ELSE 0)

\* scope 'after', no selection, a final line that goes on behind its last
\* word: the text up to the end of the document was returned
C7_Witness ==
    /\ textPc = "done"
    /\ editor.present
    /\ scope = "after"
    /\ getSelection(editor) = <<>>
    /\ editor.lines = << <<"a">>, <<"a", ".">> >>
    /\ editor.cursor = [line |-> 0, ch |-> 0]
    /\ selected = <<"a", "\n", "a", ".">>

(***************************************************************************)
(* Claims about getAudioFormatType, checked under SpecFormat.              *)
(***************************************************************************)
EndsWith(s, suffix) ==
    /\ Len(s) >= Len(suffix)
    /\ SubSeq(s, Len(s) - Len(suffix) + 1, Len(s)) = suffix

LowerCased(s) == [k \in 1..Len(s) |-> IF s[k] = "M" THEN "m" ELSE s[k]]

\* C8, as stated: 'mp3' for every format string that ends in '-mp3',
\* compared case-insensitively, and 'wav' for every other string.
C8_Mp3IffDashMp3Suffix ==
    formatPc = "done" =>
        formatType = IF EndsWith(LowerCased(audioFormat), <<"-", "m", "p", "3">>)
                     THEN "mp3" ELSE "wav"

\* C8, amended: 'mp3' exactly for the strings without a line terminator
\* that are 'mp3' or end in '-mp3', compared case-insensitively; 'wav' for
\* every other string.
C8_FormatType ==
    formatPc = "done" =>
        formatType =
            IF /\ \A k \in 1..Len(audioFormat) : audioFormat[k] # "\n"
               /\ \/ LowerCased(audioFormat) = <<"m", "p", "3">>
                  \/ EndsWith(LowerCased(audioFormat), <<"-", "m", "p", "3">>)
            THEN "mp3" ELSE "wav"

\* an upper-case suffix behind two hyphens was classified as mp3
C8_Witness ==
    /\ formatPc = "done"
    /\ audioFormat = <<"w", "-", "M", "p", "3">>
    /\ formatType = "mp3"

(***************************************************************************)
(* Claims about generateSettings, checked under SpecSettings.              *)
(***************************************************************************)
\* C9: once every click has finished, every rendered password field has
\* input type 'password' exactly when keyHide is true ('text' otherwise),
\* and its button shows 'eye' exactly when keyHide is true ('eye-off'
\* otherwise).
C9_AllFieldsFollowKeyHide ==
    pending = <<>> =>
        \A f \in 1..Len(fields) :
            fields[f].password =>
                /\ fields[f].inputType = IF settings.keyHide THEN "password" ELSE "text"
                /\ fields[f].icon = IF settings.keyHide THEN "eye" ELSE "eye-off"

====
